---- MODULE Spec2Model ----
(***************************************************************************)
(* One WebSocket session of PhotoEditorServer (src/server/main.py): the    *)
(* Receiver coroutine (ws_receiver), the Worker coroutine (ws_llm_worker   *)
(* with the handlers it awaits and stream_prompts), the TaskGroup of       *)
(* ws_runtime, the transport and the LLM backend.                          *)
(*                                                                         *)
(* asyncio runs one coroutine at a time and switches only at an await, so  *)
(* every action below is the code between two awaits of one coroutine.     *)
(* The Worker's position wpc names the await it is suspended at.           *)
(*                                                                         *)
(* The template engine (get_prompts) is modelled on prompt objects with    *)
(* identities, and texts as sequences of characters; PromptSpec runs it    *)
(* alone.                                                                  *)
(***************************************************************************)
EXTENDS Integers, Sequences, FiniteSets, TLC

\* ------------------------------------------------------------------ bounds
\* Inbound frames the Receiver processes in one run.
MaxFrames == 2
\* Fragments the backend yields in one streamed generation.
MaxFragments == 2
\* Characters of a template text.
MaxText == 4
\* Inbound frames of a client that sends nothing but one action.
MaxBurst == 3
\* Messages of the conversation history of one details object.
MaxMessages == 2

\* ------------------------------------------------------------ value spaces
Statuses == {"Idle", "NewTask", "Interrupt", "Working", "Responding", "Closed"}

\* data['action'] of an inbound frame: the four handled names, a name no
\* branch of the Worker handles, and the empty string (falsy in Python).
ActionNames == {"Welcome", "ImageOpened", "Chat", "AutoImageDesc", "Other", ""}

Absent == "absent"
NoAction == [kind |-> "None", id |-> 0]
NoDetails == [page |-> "None", setup |-> FALSE]
NoCont == [name |-> "none", after |-> "none"]

\* data['details'] values of the inbound frames: the blank page, and the
\* editor page with the setup of the image.
DetailValues ==
    { [page |-> "blank", setup |-> FALSE],
      [page |-> "editor", setup |-> TRUE] }

AllFrames ==
    [ json : BOOLEAN, object : BOOLEAN,
      lang : {Absent, "en", "zh"}, fileName : BOOLEAN,
      images : BOOLEAN, action : {Absent} \cup ActionNames,
      details : {NoDetails} \cup DetailValues ]

\* A frame that carries language, file name, images and details.
HasData(f) ==
    f.lang = "zh" /\ f.fileName /\ f.images /\ f.details # NoDetails

\* A frame that carries none of them.
HasNoData(f) ==
    f.lang = Absent /\ ~f.fileName /\ ~f.images /\ f.details = NoDetails

\* The inbound frames of the model: the unparseable frame, the frame that
\* is JSON but a number, true, false or null, and the JSON objects: those
\* that carry an action alone, those that carry all the data fields without
\* an action, and those that carry all the data fields and "Chat".
Frames ==
    { f \in AllFrames :
        \/ ~f.json /\ ~f.object /\ HasNoData(f) /\ f.action = Absent
        \/ f.json /\ ~f.object /\ HasNoData(f) /\ f.action = Absent
        \/ f.json /\ f.object /\ HasNoData(f) /\ f.action # Absent
        \/ f.json /\ f.object /\ HasData(f) /\ f.action \in {Absent, "Chat"} }

\* The frame {"action": "Welcome"}.
WelcomeFrame ==
    [ json |-> TRUE, object |-> TRUE, lang |-> Absent, fileName |-> FALSE,
      images |-> FALSE, action |-> "Welcome", details |-> NoDetails ]

\* The frame that is not JSON.
BadFrame ==
    [ json |-> FALSE, object |-> FALSE, lang |-> Absent, fileName |-> FALSE,
      images |-> FALSE, action |-> Absent, details |-> NoDetails ]

\* Replies of the blocking backend call to an intent prompt: the text.
IntentReplies == {"nan", "0", "1", "2", "3", "4", "5", "6", "7", "8", "9"}
Digits == {"0", "1", "2", "3", "4", "5", "6", "7", "8", "9"}

\* Replies to the editImage / rotateCrop prompt: a JSON object that changes
\* the setup, one that changes nothing, valid JSON that is no object, and
\* text that is not JSON.
EditReplies == {"changed", "same", "scalar", "notjson"}

\* A fragment of the streamed generation: without 'message', with a
\* 'message' of empty or unusable content, with a 'message' carrying text.
ChunkKinds == {"nomsg", "empty", "text"}

\* Outcomes of client.send on an open connection.
SendOutcomes == {"ok", "transient"}

StreamPcs == {"chunk", "sendStart", "sendText", "sendPrev", "sendEnd"}
LlmPcs == {"blank_llm", "editor_llm", "lang_llm", "edit_llm"}
EndPcs == {"done", "failed", "cancelled"}

VARIABLES
    status, action, lang, fileName, images, chatDetails,  \* client_info
    closed, closeCode,     \* client.closed and the close code of the transport
    registered,            \* client_info['id'] in self.clients
    wpc, rpc, rt,          \* Worker, Receiver, ws_runtime positions
    nframes,               \* inbound frames processed so far
    prev_msg, text, nfrag, \* locals of stream_prompts
    cont,                  \* what the handler does after its side-channel send
    out,                   \* frames sent by the current handler call
    deltas,                \* text deltas of the fragments consumed by the call
    spRet,                 \* outcome of the last stream_prompts call
    intStatus,             \* status the Receiver interrupted that call in
    lateSend,              \* the response send in flight began after that
    respAfterInt,          \* a response frame of such a send was delivered
    sawClosed,             \* a send of stream_prompts found the connection closed
    sentAfterClosed,       \* a frame was sent after that
    cause,                 \* what raised out of ws_llm_worker: a backend
                           \* call, an intent reply that is no number,
                           \* another handler error, or a send
    dispatched, lastStored, \* history of the action slot
    store,                 \* the prompt objects: catalog, error templates,
                           \* and the payload get_prompts returned last
    ret,                   \* the object get_prompts returned last
    cur,                   \* the last get_prompts call and what it returned
    messages,              \* chatDetails['messages']
    conversation,          \* chatDetails['conversation'], when the key is set
    convRet                \* the last get_conversation call and its value

vars ==
    << status, action, lang, fileName, images, chatDetails, closed, closeCode,
       registered, wpc, rpc, rt, nframes, prev_msg, text, nfrag, cont, out, deltas, spRet, intStatus, lateSend, respAfterInt, sawClosed,
       sentAfterClosed, cause, dispatched, lastStored, store, ret, cur,
       messages, conversation, convRet >>

sessVars == << lang, fileName, images, chatDetails >>
connVars == << closed, closeCode >>
histVars == << dispatched, lastStored >>
spVars == << prev_msg, text, nfrag, deltas, spRet, intStatus, lateSend >>
outVars == << out, respAfterInt, sentAfterClosed >>
tplVars == << store, ret, cur >>
convVars == << messages, conversation, convRet >>
runVars ==
    << status, action, lang, fileName, images, chatDetails, closed, closeCode,
       registered, wpc, rpc, rt, nframes, prev_msg, text, nfrag, cont, out,
       deltas, spRet, intStatus, lateSend, respAfterInt, sawClosed,
       sentAfterClosed, cause, dispatched, lastStored, convVars >>

\* ------------------------------------------------------ template engine
\* A text is a sequence of characters.  Four characters stand for the classes
\* the pattern of get_prompts (line 190) tells apart: the opening brace, the
\* closing brace, a character of [a-zA-Z0-9_], and any other character.
Chars == {"{", "}", "a", " "}

IsIdent(c) == c = "a"

RECURSIVE TextsUpTo(_)
\* The texts of at most n characters.
TextsUpTo(n) ==
    IF n = 0 THEN { << >> }
    ELSE LET T == TextsUpTo(n - 1)
         IN  T \cup { Append(t, c) : t \in { u \in T : Len(u) = n - 1 },
                                     c \in Chars }

\* "{{a}} {a} {{a}}": escaped braces around a token.
ExampleText ==
    << "{", "{", "a", "}", "}", " ", "{", "a", "}", " ",
       "{", "{", "a", "}", "}" >>

\* The message texts of the catalog entry.
TemplateTexts == TextsUpTo(MaxText) \cup { ExampleText }

\* The data argument of get_prompts: None or a map.  The map of the model
\* has the one key "a"; every other identifier is missing from it.
NoData == [keys |-> {}, val |-> << >>]
Values == { << "a" >>, << "{", "a", "}" >>, << "{" >>, << "}" >> }
DataMaps == { NoData } \cup { [keys |-> { << "a" >> }, val |-> v] : v \in Values }

\* get_prompts, lines 192-196: replace_content, for the identifier key.
replace_content(key, data) ==
    IF key # << >> /\ data.keys # {} /\ key \in data.keys
    THEN data.val ELSE << >>

\* get_prompts, line 190: the index of the closing brace of a match of
\* (?<!\{)\{[a-zA-Z0-9\_]+\}(?!\}) that starts at i, or 0.
TemplateMatch(s, i) ==
    IF s[i] # "{" \/ (i > 1 /\ s[i - 1] = "{") THEN 0
    ELSE LET stops == { j \in (i + 1)..Len(s) : ~IsIdent(s[j]) }
         IN  IF stops = {} THEN 0
             ELSE LET j == CHOOSE k \in stops : \A m \in stops : k <= m
                  IN  IF /\ j > i + 1 /\ s[j] = "}"
                         /\ (j = Len(s) \/ s[j + 1] # "}")
                      THEN j ELSE 0

RECURSIVE TemplateSub(_, _, _)
\* get_prompts, lines 198-201: template.sub(replace_content, content), the
\* scan from index i on: the matches are replaced from left to right, and
\* what was put in is not scanned.
TemplateSub(s, i, data) ==
    IF i > Len(s) THEN << >>
    ELSE LET j == TemplateMatch(s, i)
         IN  IF j > 0
             THEN replace_content(SubSeq(s, i + 1, j - 1), data)
                      \o TemplateSub(s, j + 1, data)
             ELSE << s[i] >> \o TemplateSub(s, i + 1, data)

RECURSIVE ReSub(_, _)
\* get_prompts, line 199: re.sub of the doubled character c by c.
ReSub(c, s) ==
    IF Len(s) < 2 THEN s
    ELSE IF s[1] = c /\ s[2] = c
    THEN << c >> \o ReSub(c, SubSeq(s, 3, Len(s)))
    ELSE << s[1] >> \o ReSub(c, Tail(s))

\* RenderContent that resolves the doubled braces before the tokens.
RenderContent_UnescapeFirst(s, data) ==
    TemplateSub(ReSub("{", ReSub("}", s)), 1, data)

\* get_prompts, lines 199-201: the new content of a message.
RenderContent(s, data) ==
    ReSub("{", ReSub("}", TemplateSub(s, 1, data)))

\* The prompt objects.  "cat" is the message of the catalog entry
\* self.prompts['en']['p'], "errEn" and "errZh" the messages of
\* prompt_error_message (lines 118-131), "res" the payload of the last
\* get_prompts call.
Addr == {"cat", "errEn", "errZh", "res"}
CatalogAddrs == {"cat", "errEn", "errZh"}
Langs == {"en", "zh", "fr"}
PromptIds == {"p", "q"}
ErrEnText == << "a", " ", "a" >>
ErrZhText == << " ", "a" >>

Store0(t) ==
    [ a \in Addr |->
        [ content |-> CASE a = "cat" -> t
                        [] a = "errEn" -> ErrEnText
                        [] a = "errZh" -> ErrZhText
                        [] OTHER -> << >>,
          images |-> FALSE ] ]

NoRender ==
    [ lang |-> "none", id |-> "none", data |-> NoData, src |-> "none",
      val |-> [content |-> << >>, images |-> FALSE] ]

\* get_prompts, line 186: self.prompts.get(lang, {}).get(prompt_id).
CatalogGet(l, id) == IF l = "en" /\ id = "p" THEN "cat" ELSE "none"

\* ErrorGet that knows the default language only.
ErrorGet_DefaultOnly(l) == "errEn"

\* get_prompts, line 187: self.prompt_error_message.get(lang,
\* self.prompt_error_message['en']).
ErrorGet(l) ==
    IF l = "en" THEN "errEn" ELSE IF l = "zh" THEN "errZh" ELSE "errEn"

\* get_prompts, lines 186-187: the object that is copied.
Source(l, id) ==
    IF CatalogGet(l, id) # "none" THEN CatalogGet(l, id) ELSE ErrorGet(l)

\* Copy that hands out the object itself.
Copy_Alias(src) == src

\* get_prompts, line 185: deepcopy gives a new object.
Copy(src) == "res"

\* ------------------------------------------------- conversation string
\* A string is a sequence of pieces: a role name, a content, the piece
\* "fence" for the three backquotes, "colon" for the colon and the blank,
\* "newline" for the line break.  The roles of IChatMessage (line 29)
\* and one message content: message lists differ by their roles.
Roles == {"user", "assistant", "system"}
Contents == {"a"}
Messages == [role : Roles, content : Contents]

RECURSIVE ListsUpTo(_)
\* The message lists of at most n messages.
ListsUpTo(n) ==
    IF n = 0 THEN { << >> }
    ELSE LET L == ListsUpTo(n - 1)
         IN  L \cup { Append(ms, m) : ms \in { u \in L : Len(u) = n - 1 },
                                      m \in Messages }

\* chatDetails without the key 'conversation'; no get_conversation call yet.
NoConversation == [set |-> FALSE, str |-> << >>]
NoCall == [lang |-> "none", value |-> << >>]

\* get_conversation, lines 688-699: the role names of a language, those of
\* 'en' for a language that has none.
default_role_names(l) ==
    IF l = "zh"
    THEN [user |-> "zh-user", assistant |-> "zh-assistant"]
    ELSE [user |-> "User", assistant |-> "Cindex (You)"]

\* get_conversation, line 704: the name of a role, the role itself when the
\* language names none for it.
RoleName(l, role) ==
    IF role \in DOMAIN default_role_names(l)
    THEN default_role_names(l)[role] ELSE role

\* get_conversation, line 705: the line of one message.
MessageLine(l, m) ==
    << RoleName(l, m.role), "colon", "fence", m.content, "fence" >>

RECURSIVE JoinLines(_, _)
\* get_conversation, lines 702-706: the lines of the messages joined by
\* newlines.
JoinLines(l, ms) ==
    IF ms = << >> THEN << >>
    ELSE IF Len(ms) = 1 THEN MessageLine(l, ms[1])
    ELSE MessageLine(l, ms[1]) \o << "newline" >> \o JoinLines(l, Tail(ms))

\* ------------------------------------------------------- initial state
\* ws_runtime, lines 923-939: the session record, registered, both tasks
\* created.
SessionInit ==
    /\ status = "Idle" /\ action = NoAction /\ lang = "en"
    /\ fileName = FALSE /\ images = FALSE /\ chatDetails = NoDetails
    /\ closed = FALSE /\ closeCode = "none" /\ registered = TRUE
    /\ wpc = "poll" /\ rpc = "run" /\ rt = "running"
    /\ nframes = 0
    /\ prev_msg = << >> /\ text = << >> /\ nfrag = 0
    /\ cont = NoCont
    /\ out = << >> /\ deltas = << >>
    /\ spRet = "none" /\ intStatus = "none" /\ lateSend = FALSE
    /\ respAfterInt = FALSE /\ sawClosed = FALSE /\ sentAfterClosed = FALSE
    /\ cause = "none"
    /\ dispatched = << >> /\ lastStored = 0
    /\ messages = << >> /\ conversation = NoConversation /\ convRet = NoCall

\* A session of a server whose catalog was loaded (lines 133-163).  The
\* session's steps leave the prompt objects alone: what a handler renders
\* does not matter to the protocol, and the catalog text is a short one.
Init ==
    /\ SessionInit
    /\ store = Store0(<< "a" >>) /\ ret = "none" /\ cur = NoRender

\* ------------------------------------------------------------ Receiver
\* ReceiverStatus without the Interrupt branch.
ReceiverStatus_NoInterrupt(s) == "NewTask"

\* ws_receiver, lines 906-912: the status an inbound action leaves.
ReceiverStatus(s) ==
    IF s \in {"Working", "Responding"} THEN "Interrupt" ELSE "NewTask"

\* StoreAction that keeps an action the Worker has not read yet.
StoreAction_KeepFirst(old, new) ==
    IF old.kind \notin {"None", ""} THEN old ELSE new

\* ws_receiver, line 905: the slot after an inbound action is stored.
StoreAction(old, new) == new

\* StoreDetails that leaves the details of the frame for later.
StoreDetails_Late(old, new) == old

\* ws_receiver, lines 914-915: chatDetails after a frame, replaced in the
\* step that stored the action of the frame (no await in lines 886-915).
StoreDetails(old, new) == IF new # NoDetails THEN new ELSE old

\* Parses that takes every frame for JSON.
Parses_Always(f) == TRUE

\* ws_receiver, lines 886-889: json.loads succeeds on the frame.
Parses(f) == f.json

\* ws_receiver, lines 885-915: one inbound frame, processed without an await.
\* Actions are numbered in arrival order.  A frame that is not JSON is
\* skipped (lines 886-889); for JSON that is a number, true, false or null
\* the test "'lang' in data" (line 894) raises TypeError, which nothing
\* catches.
ReceiveWithin(f, n) ==
    /\ UNCHANGED << tplVars, convVars >>
    /\ rpc = "run" /\ ~closed /\ nframes < n
    /\ nframes' = nframes + 1
    /\ rpc' = IF Parses(f) /\ ~f.object THEN "failed" ELSE rpc
    /\ IF ~Parses(f) \/ ~f.object
       THEN UNCHANGED << status, action, sessVars, lastStored, intStatus >>
       ELSE /\ lang' = IF f.lang # Absent THEN f.lang ELSE lang
            /\ fileName' = (fileName \/ f.fileName)
            /\ images' = (images \/ f.images)
            /\ IF f.action # Absent
               THEN /\ action' = StoreAction(action,
                                     [kind |-> f.action, id |-> lastStored + 1])
                    /\ status' = ReceiverStatus(status)
                    /\ lastStored' = lastStored + 1
                    /\ intStatus' =
                          IF /\ wpc \in StreamPcs /\ intStatus = "none"
                             /\ status \in {"Working", "Responding"}
                          THEN status ELSE intStatus
               ELSE UNCHANGED << action, status, lastStored, intStatus >>
            /\ chatDetails' = StoreDetails(chatDetails, f.details)
    /\ UNCHANGED << connVars, registered, wpc, rt, prev_msg, text, nfrag,
                    cont, deltas, spRet, lateSend, outVars,
                    sawClosed, cause, dispatched >>

\* One of the inbound frames of a run.
Receive(f) == ReceiveWithin(f, MaxFrames)

\* The transport closes, normally (close code 1000 or 1001, "ok") or not
\* ("error"): client.closed becomes true, and the Receiver, suspended in
\* "async for message in client" (line 885), ends: the iteration stops after
\* a normal close and raises ConnectionClosedError otherwise.
TransportClose(code) ==
    /\ UNCHANGED << tplVars, convVars >>
    /\ ~closed
    /\ closed' = TRUE /\ closeCode' = code
    /\ rpc' = IF rpc # "run" THEN rpc
              ELSE IF code = "ok" THEN "done" ELSE "failed"
    /\ UNCHANGED << status, action, sessVars, registered, wpc, rt, nframes,
                    spVars, cont, outVars, sawClosed, cause, histVars >>

\* ------------------------------------------------------------ ws_runtime
\* ws_runtime, lines 937-939: the TaskGroup cancels the other task when one
\* task ends with an exception.
CancelWorker ==
    /\ UNCHANGED << tplVars, convVars >>
    /\ rpc = "failed" /\ wpc \notin EndPcs
    /\ wpc' = "cancelled"
    /\ UNCHANGED << status, action, sessVars, connVars, registered, rpc, rt,
                    nframes, spVars, cont, outVars, sawClosed, cause,
                    histVars >>

CancelReceiver ==
    /\ UNCHANGED << tplVars, convVars >>
    /\ wpc = "failed" /\ rpc = "run"
    /\ rpc' = "cancelled"
    /\ UNCHANGED << status, action, sessVars, connVars, registered, wpc, rt,
                    nframes, spVars, cont, outVars, sawClosed, cause,
                    histVars >>

\* ws_runtime, lines 937-942: leaving the TaskGroup.  When a task raised,
\* the "async with" raises and lines 941-942 are not run.
RuntimeExit ==
    /\ UNCHANGED << tplVars, convVars >>
    /\ rt = "running" /\ wpc \in EndPcs /\ rpc \in EndPcs
    /\ IF wpc = "done" /\ rpc = "done"
       THEN /\ status' = "Closed" /\ registered' = FALSE /\ rt' = "finished"
       ELSE /\ rt' = "raised" /\ UNCHANGED << status, registered >>
    /\ UNCHANGED << action, sessVars, connVars, wpc, rpc, nframes, spVars,
                    cont, outVars, sawClosed, cause, histVars >>

\* -------------------------------------------------------------- Worker
\* ws_llm_worker, line 857: "if client_info['action']".
Truthy(a) == a.kind \notin {"None", ""}

\* SlotReady that takes an action only when the status announces one.
SlotReady_NewTaskOnly(a, s) == Truthy(a) /\ s = "NewTask"

\* ws_llm_worker, line 857: the Worker takes what the slot holds whenever it
\* holds an action; the status is not looked at.
SlotReady(a, s) == Truthy(a)

\* TakeAction without the clearing of the slot.
TakeAction_NoClear(a) == a

\* ws_llm_worker, line 859: the slot after the Worker has read it.
TakeAction(a) == NoAction

\* stream_prompts, lines 332-334: the check made on every fragment.
StreamAborts(reg, cl, s) == ~reg \/ cl \/ s \in {"Closed", "Interrupt"}

\* FinishStatus that never flags Idle.
FinishStatus_NoIdle(s, flag_idle) == s

\* stream_prompts, lines 378-381: the status after responseEnd was sent.
FinishStatus(s, flag_idle) ==
    IF flag_idle /\ s \in {"Working", "Responding"} THEN "Idle" ELSE s

\* CarryOver that drops the text of the failed send.
CarryOver_Drop(t) == << >>

\* CarryOver with a single slot: the text of the last fragment only.
CarryOver_Last(t) == IF t = << >> THEN << >> ELSE << t[Len(t)] >>

\* stream_prompts, line 362: the carry-over after a transient send failure.
CarryOver(t) == t

\* stream_prompts, line 326: the status the engine starts with.
StartStatus(s) == "Working"

\* An outbound frame: its kind ("responseStart", "response", "responseEnd",
\* or the name of a responseAction) and its text.
Frame(type, t) == [type |-> type, text |-> t]

\* client.send handed frame fr to the transport.
Deliver(fr) ==
    /\ out' = Append(out, fr)
    /\ sentAfterClosed' = (sentAfterClosed \/ sawClosed)
    /\ respAfterInt' = (respAfterInt \/ (fr.type = "response" /\ lateSend))

\* The Worker moves to pc and changes nothing else of its own.
Goto(pc) ==
    /\ wpc' = pc
    /\ UNCHANGED << status, cont, spVars, cause >>

\* An exception leaves the handler and ws_llm_worker: nothing catches it.
Raise(c) ==
    /\ wpc' = "failed" /\ cause' = c
    /\ UNCHANGED << status, cont, spVars >>

\* The handler returns; ws_llm_worker sleeps (line 879) and polls again.
HandlerReturn == Goto("poll")

\* A handler call begins: nothing of an earlier call is left.
FreshCall ==
    /\ prev_msg' = << >> /\ text' = << >> /\ nfrag' = 0 /\ deltas' = << >>
    /\ spRet' = "none" /\ intStatus' = "none" /\ lateSend' = FALSE

\* stream_prompts, lines 324-331: up to the wait for the first fragment.
StartStream ==
    /\ status' = StartStatus(status)
    /\ FreshCall
    /\ cont' = NoCont
    /\ wpc' = "chunk"
    /\ UNCHANGED cause

\* What follows a side-channel ensure_ws_send_message in a handler:
\* stream_prompts at once (lines 745, 802, 809, 624, 634, 847), or the
\* Interrupt check of edit_photo / crop_rotate first (lines 493-506,
\* 553-566), where a reply that is no JSON object fails at .items().
Continue(after) ==
    CASE after = "stream" -> StartStream
      [] after = "check" ->
            IF status = "Interrupt" THEN HandlerReturn ELSE StartStream
      [] OTHER ->
            IF status = "Interrupt" THEN HandlerReturn ELSE Raise("handler")

\* ensure_ws_send_message called by a handler, lines 300-302: when the
\* connection is closed it returns False at once, else the send is awaited.
CallSide(name, after) ==
    IF closed
    THEN Continue(after)
    ELSE /\ wpc' = "side"
         /\ cont' = [name |-> name, after |-> after]
         /\ UNCHANGED << status, spVars, cause >>

\* LoopEnds that does not look at the connection.
LoopEnds_IgnoreClose(cl, reg) == ~reg

\* ws_llm_worker, line 855: the condition that ends the loop.
LoopEnds(cl, reg) == cl \/ ~reg

\* ws_llm_worker, line 855: the loop ends when the connection is closed or
\* the session is no longer registered.
WorkerExit ==
    /\ UNCHANGED << tplVars, convVars >>
    /\ wpc = "poll" /\ LoopEnds(closed, registered)
    /\ Goto("done")
    /\ UNCHANGED << action, sessVars, connVars, registered, rpc, rt, nframes,
                    outVars, sawClosed, histVars >>

\* Awaited for a loop that starts the handler and does not wait for it.
Awaited_FireAndForget(pc) == pc \notin EndPcs

\* ws_llm_worker, lines 860-877: every handler is awaited, so the loop reads
\* the slot again only after the handler has returned and the sleep of line
\* 879 is over.
Awaited(pc) == pc = "poll"

\* ws_llm_worker, lines 857-877, with the synchronous start of the handler:
\* create_welcome_message (407-410), create_image_opened_message (419-428),
\* create_auto_image_desc_message (437-445), chat_in_blank_page (719-724),
\* chat_in_editor (776-781).
Dispatch ==
    /\ UNCHANGED << tplVars, convVars >>
    /\ Awaited(wpc) /\ ~LoopEnds(closed, registered)
    /\ SlotReady(action, status)
    /\ action' = TakeAction(action)
    /\ dispatched' =
          Append(dispatched, [id |-> action.id, latest |-> lastStored])
    /\ out' = << >>
    /\ LET ready ==
              \/ action.kind = "Welcome"
              \/ action.kind = "ImageOpened" /\ fileName
              \/ action.kind = "AutoImageDesc" /\ images
           chat == action.kind = "Chat" /\ chatDetails # NoDetails
           fails ==
              \/ action.kind = "ImageOpened" /\ ~fileName
              \/ action.kind = "AutoImageDesc" /\ ~images
       IN  IF ready THEN StartStream
           ELSE /\ FreshCall
                /\ status' = IF chat THEN "Working" ELSE status
                /\ wpc' = IF chat
                          THEN IF chatDetails.page = "blank"
                               THEN "blank_llm" ELSE "editor_llm"
                          ELSE IF fails THEN "failed" ELSE "poll"
                /\ cause' = IF fails THEN "handler" ELSE cause
                /\ UNCHANGED cont
    /\ UNCHANGED << sessVars, connVars, registered, rpc, rt, nframes,
                    respAfterInt, sentAfterClosed, sawClosed, lastStored >>

\* _response_from_llm, lines 281-295: a non-200 answer, a missing or
\* malformed 'message' raise; no handler catches it.
LlmFails ==
    /\ UNCHANGED << tplVars, convVars >>
    /\ wpc \in LlmPcs
    /\ Raise("generation")
    /\ UNCHANGED << action, sessVars, connVars, registered, rpc, rt, nframes,
                    outVars, sawClosed, histVars >>

\* stream_not_understand, lines 842-849.
NotUnderstand == CallSide("notUnderstand", "stream")

\* chat_in_blank_page, lines 726-767, after the intent reply r arrived.
BlankIntent(r) ==
    IF status = "Interrupt" THEN HandlerReturn
    ELSE IF r \notin Digits THEN Raise("intent")
    ELSE CASE r = "1" -> CallSide("openFile", "stream")
           [] r \in {"2", "4", "5"} -> StartStream
           [] r = "3" -> Goto("lang_llm")
           [] OTHER -> NotUnderstand

\* chat_in_editor, lines 783-836, edit_photo / crop_rotate up to their
\* backend call (454-469, 515-529), describe_image (575-585).
EditorIntent(r) ==
    IF status = "Interrupt" THEN HandlerReturn
    ELSE IF r \notin Digits THEN Raise("intent")
    ELSE CASE r = "1" -> CallSide("openFile", "stream")
           [] r = "2" -> CallSide("saveFile", "stream")
           [] r = "3" -> Goto("lang_llm")
           [] r \in {"4", "5"} ->
                 IF chatDetails.setup THEN Goto("edit_llm")
                 ELSE Raise("handler")
           [] r = "7" ->
                 IF images THEN StartStream ELSE Raise("handler")
           [] r \in {"8", "9"} -> StartStream
           [] OTHER -> NotUnderstand

\* switch_lang_by_message, lines 604-651 (without the write of lang).
LangIntent(r) ==
    IF status = "Interrupt" THEN HandlerReturn
    ELSE IF r \notin Digits THEN Raise("intent")
    ELSE CASE r \in {"1", "2"} -> CallSide("switchLang", "stream")
           [] r \in {"3", "4"} -> StartStream
           [] OTHER -> NotUnderstand

\* switch_lang_by_message, lines 619 and 629: the Worker writes lang.
SwitchedLang(s, r, l) ==
    IF s # "Interrupt" /\ r = "1" THEN "zh"
    ELSE IF s # "Interrupt" /\ r = "2" THEN "en" ELSE l

\* The blocking intent call of a chat handler returns r.
IntentReply(r) ==
    /\ UNCHANGED << tplVars, convVars >>
    /\ wpc \in {"blank_llm", "editor_llm", "lang_llm"}
    /\ CASE wpc = "blank_llm" -> BlankIntent(r)
         [] wpc = "editor_llm" -> EditorIntent(r)
         [] OTHER -> LangIntent(r)
    /\ lang' = IF wpc = "lang_llm" THEN SwitchedLang(status, r, lang) ELSE lang
    /\ UNCHANGED << action, fileName, images, chatDetails, connVars,
                    registered, rpc, rt, nframes, outVars, sawClosed,
                    histVars >>

\* edit_photo, lines 471-490, crop_rotate, lines 531-550.
EditReply(r) ==
    /\ UNCHANGED << tplVars, convVars >>
    /\ wpc = "edit_llm"
    /\ IF status = "Interrupt" THEN HandlerReturn
       ELSE CASE r = "notjson" -> NotUnderstand
              [] r = "scalar" -> CallSide("editImage", "items")
              [] OTHER -> CallSide("editImage", "check")
    /\ UNCHANGED << action, sessVars, connVars, registered, rpc, rt, nframes,
                    outVars, sawClosed, histVars >>

\* ensure_ws_send_message of a handler, lines 302-305: the awaited send ends.
\* Only ConnectionClosedError is caught; a normal close (ConnectionClosedOK)
\* and any other WebSocketException leave the function as an exception.
SideDone(o) ==
    /\ UNCHANGED << tplVars, convVars >>
    /\ wpc = "side"
    /\ IF closed
       THEN /\ IF closeCode = "error" THEN Continue(cont.after)
               ELSE Raise("send")
            /\ UNCHANGED outVars
       ELSE IF o = "ok"
       THEN /\ Continue(cont.after)
            /\ Deliver(Frame(cont.name, << >>))
       ELSE Raise("send") /\ UNCHANGED outVars
    /\ UNCHANGED << action, sessVars, connVars, registered, rpc, rt, nframes,
                    sawClosed, histVars >>

\* ------------------------------------------------------ stream_prompts
\* stream_prompts returns r ("True" or "False") to the handler, which
\* returns to ws_llm_worker (every handler ends with the call).
ReturnSP(r) ==
    /\ spRet' = r /\ wpc' = "poll"
    /\ prev_msg' = << >> /\ text' = << >> /\ nfrag' = 0
    /\ UNCHANGED << deltas, intStatus, lateSend, cont, cause >>

\* An exception leaves stream_prompts, the handler and ws_llm_worker.
RaiseSP(c) ==
    /\ spRet' = "raised" /\ wpc' = "failed" /\ cause' = c
    /\ prev_msg' = << >> /\ text' = << >> /\ nfrag' = 0
    /\ UNCHANGED << deltas, intStatus, lateSend, cont >>

\* stream_prompts, lines 350-357: the text of the fragment is sent after the
\* carry-over, when there is text.
SendText(delta) ==
    /\ IF delta # << >>
       THEN /\ text' = prev_msg \o delta /\ wpc' = "sendText"
            /\ lateSend' = (intStatus = "Responding")
       ELSE /\ text' = << >> /\ wpc' = "chunk"
            /\ UNCHANGED lateSend
    /\ UNCHANGED << prev_msg, spRet, intStatus, cont, cause >>

\* The text delta of fragment n of kind k.
Delta(k, n) == IF k = "text" THEN << n >> ELSE << >>

\* stream_prompts, lines 331-357: the next fragment arrives.
ChunkArrives(k) ==
    /\ UNCHANGED << tplVars, convVars >>
    /\ wpc = "chunk" /\ nfrag < MaxFragments
    /\ IF StreamAborts(registered, closed, status)
       THEN ReturnSP("False") /\ UNCHANGED status
       ELSE /\ nfrag' = nfrag + 1
            /\ deltas' = deltas \o Delta(k, nfrag + 1)
            /\ IF k = "nomsg"
               THEN /\ wpc' = "chunk"
                    /\ UNCHANGED << status, prev_msg, text, spRet,
                                    intStatus, lateSend, cont, cause >>
               ELSE IF status = "Working"
               THEN /\ status' = "Responding"
                    /\ text' = Delta(k, nfrag + 1)
                    /\ wpc' = "sendStart"
                    /\ UNCHANGED << prev_msg, spRet, intStatus,
                                    lateSend, cont, cause >>
               ELSE SendText(Delta(k, nfrag + 1)) /\ UNCHANGED status
    /\ UNCHANGED << action, sessVars, connVars, registered, rpc, rt, nframes,
                    outVars, sawClosed, histVars >>

\* _stream_from_llm, lines 241-247: a non-200 answer or an undecodable
\* fragment raises through stream_prompts.
StreamFails ==
    /\ UNCHANGED << tplVars, convVars >>
    /\ wpc = "chunk"
    /\ RaiseSP("generation")
    /\ UNCHANGED << status, action, sessVars, connVars, registered, rpc, rt,
                    nframes, outVars, sawClosed, histVars >>

\* ensure_ws_send_message called by stream_prompts, lines 302-305, ends on a
\* closed connection: ConnectionClosedError gives False and stream_prompts
\* returns False; ConnectionClosedOK is not caught.
ClosedInEnsure ==
    /\ IF closeCode = "error" THEN ReturnSP("False") ELSE RaiseSP("send")
    /\ sawClosed' = TRUE
    /\ UNCHANGED outVars

\* stream_prompts, lines 343-348: the send of responseStart ends.
StartDone(o) ==
    /\ UNCHANGED << tplVars, convVars >>
    /\ wpc = "sendStart"
    /\ IF closed THEN ClosedInEnsure
       ELSE IF o = "ok"
       THEN /\ SendText(text)
            /\ Deliver(Frame("responseStart", << >>))
            /\ UNCHANGED << sawClosed, nfrag, deltas >>
       ELSE /\ RaiseSP("send")
            /\ UNCHANGED << sawClosed, outVars >>
    /\ UNCHANGED << status, action, sessVars, connVars, registered, rpc, rt,
                    nframes, histVars >>

\* stream_prompts, lines 356-362: the send of a response frame ends.
\* ConnectionClosedError aborts; every other WebSocketException, a normal
\* close included, keeps the text for the next fragment.
TextDone(o) ==
    /\ UNCHANGED << tplVars, convVars >>
    /\ wpc = "sendText"
    /\ IF closed /\ closeCode = "error"
       THEN /\ ReturnSP("False")
            /\ sawClosed' = TRUE
            /\ UNCHANGED outVars
       ELSE /\ wpc' = "chunk" /\ text' = << >>
            /\ UNCHANGED << nfrag, deltas, spRet, intStatus,
                            lateSend, cont, cause >>
            /\ IF ~closed /\ o = "ok"
               THEN /\ prev_msg' = << >>
                    /\ Deliver(Frame("response", text))
                    /\ UNCHANGED sawClosed
               ELSE /\ prev_msg' = CarryOver(text)
                    /\ sawClosed' = (sawClosed \/ closed)
                    /\ UNCHANGED outVars
    /\ UNCHANGED << status, action, sessVars, connVars, registered, rpc, rt,
                    nframes, histVars >>

\* stream_prompts, lines 364-373: the fragment stream is exhausted; the
\* carry-over, or else responseEnd, is handed to ensure_ws_send_message,
\* which returns False at once on a closed connection (line 300).
StreamEnds ==
    /\ UNCHANGED << tplVars, convVars >>
    /\ wpc = "chunk"
    /\ IF closed
       THEN ReturnSP("False") /\ sawClosed' = TRUE
       ELSE /\ wpc' = IF prev_msg # << >> THEN "sendPrev" ELSE "sendEnd"
            /\ lateSend' = IF prev_msg # << >>
                           THEN intStatus = "Responding" ELSE lateSend
            /\ UNCHANGED << prev_msg, text, nfrag, deltas, spRet,
                            intStatus, cont, cause, sawClosed >>
    /\ UNCHANGED << status, action, sessVars, connVars, registered, rpc, rt,
                    nframes, outVars, histVars >>

\* stream_prompts, lines 366-373: the send of the carry-over ends, and
\* responseEnd is handed to ensure_ws_send_message.
PrevDone(o) ==
    /\ UNCHANGED << tplVars, convVars >>
    /\ wpc = "sendPrev"
    /\ IF closed THEN ClosedInEnsure
       ELSE IF o = "ok"
       THEN /\ wpc' = "sendEnd"
            /\ Deliver(Frame("response", prev_msg))
            /\ UNCHANGED << spVars, cont, cause, sawClosed >>
       ELSE /\ RaiseSP("send")
            /\ UNCHANGED << sawClosed, outVars >>
    /\ UNCHANGED << status, action, sessVars, connVars, registered, rpc, rt,
                    nframes, histVars >>

\* stream_prompts, lines 372-383: the send of responseEnd ends.
EndDone(o) ==
    /\ UNCHANGED << tplVars, convVars >>
    /\ wpc = "sendEnd"
    /\ IF closed THEN ClosedInEnsure /\ UNCHANGED status
       ELSE IF o = "ok"
       THEN /\ ReturnSP("True")
            /\ Deliver(Frame("responseEnd", << >>))
            /\ status' = FinishStatus(status, TRUE)
            /\ UNCHANGED sawClosed
       ELSE /\ RaiseSP("send")
            /\ UNCHANGED << sawClosed, outVars, status >>
    /\ UNCHANGED << action, sessVars, connVars, registered, rpc, rt, nframes,
                    histVars >>

\* ------------------------------------------------------- specification
Next ==
    \/ \E f \in Frames : Receive(f)
    \/ \E code \in {"ok", "error"} : TransportClose(code)
    \/ CancelWorker
    \/ CancelReceiver
    \/ RuntimeExit
    \/ WorkerExit
    \/ Dispatch
    \/ LlmFails
    \/ \E r \in IntentReplies : IntentReply(r)
    \/ \E r \in EditReplies : EditReply(r)
    \/ \E o \in SendOutcomes : SideDone(o)
    \/ \E k \in ChunkKinds : ChunkArrives(k)
    \/ StreamFails
    \/ \E o \in SendOutcomes : StartDone(o)
    \/ \E o \in SendOutcomes : TextDone(o)
    \/ StreamEnds
    \/ \E o \in SendOutcomes : PrevDone(o)
    \/ \E o \in SendOutcomes : EndDone(o)

Spec == Init /\ [][Next]_vars

TypeOK ==
    /\ status \in Statuses
    /\ wpc \in StreamPcs \cup LlmPcs \cup EndPcs \cup {"poll", "side"}
    /\ rpc \in {"run", "done", "failed", "cancelled"}
    /\ rt \in {"running", "finished", "raised"}
    /\ nframes \in 0..MaxFrames /\ nfrag \in 0..MaxFragments
    /\ spRet \in {"none", "True", "False", "raised"}
    /\ intStatus \in {"none", "Working", "Responding"}
    /\ cause \in {"none", "generation", "intent", "handler", "send"}

\* The happy path: frames arrive until one carries an action whose handler
\* finds what it reads, every backend call answers, the stream is finite and
\* has a fragment that carries a message, every send succeeds, and the
\* connection stays open.
HandlerReady(f) ==
    \/ f.action \in {Absent, "Welcome"}
    \/ /\ f.action \in {"ImageOpened", "AutoImageDesc", "Chat"}
       /\ (HasData(f) \/ chatDetails # NoDetails)

HappyWorker ==
    \/ Dispatch
    \/ \E r \in Digits : IntentReply(r)
    \/ \E r \in EditReplies \ {"scalar"} : EditReply(r)
    \/ SideDone("ok")
    \/ \E k \in ChunkKinds :
          /\ (status = "Working" /\ nfrag = MaxFragments - 1) => k # "nomsg"
          /\ ChunkArrives(k)
    \/ StartDone("ok")
    \/ TextDone("ok")
    \/ (status = "Responding" /\ StreamEnds)
    \/ EndDone("ok")

HappyNext ==
    \/ \E f \in Frames :
          f.object /\ lastStored = 0 /\ HandlerReady(f) /\ Receive(f)
    \/ HappyWorker

\* asyncio resumes a coroutine whose await has completed, and on the happy
\* path every await of the Worker completes.
HappySpec == Init /\ [][HappyNext]_vars /\ WF_vars(HappyWorker)

\* The steps of the Worker coroutine.
WorkerStep ==
    \/ WorkerExit
    \/ Dispatch
    \/ LlmFails
    \/ \E r \in IntentReplies : IntentReply(r)
    \/ \E r \in EditReplies : EditReply(r)
    \/ \E o \in SendOutcomes : SideDone(o)
    \/ \E k \in ChunkKinds : ChunkArrives(k)
    \/ StreamFails
    \/ \E o \in SendOutcomes : StartDone(o)
    \/ \E o \in SendOutcomes : TextDone(o)
    \/ StreamEnds
    \/ \E o \in SendOutcomes : PrevDone(o)
    \/ \E o \in SendOutcomes : EndDone(o)

\* Every await of the Worker completes: asyncio.sleep returns, a send ends
\* or raises, and a backend request answers, fails, or runs into the total
\* timeout of aiohttp.ClientSession; the event loop then resumes the Worker.
\* The TaskGroup cancels the other task when one raised, and ws_runtime
\* leaves the TaskGroup when both tasks are done.  Nothing makes the client
\* send a frame or close the connection.
LiveSpec ==
    /\ Init /\ [][Next]_vars
    /\ WF_vars(WorkerStep)
    /\ WF_vars(CancelWorker) /\ WF_vars(CancelReceiver) /\ WF_vars(RuntimeExit)

\* The session of a client that sends {"action": "Welcome"} and nothing else,
\* up to MaxBurst times: the handlers other than create_welcome_message and
\* the blocking backend call are never reached.
BurstNext ==
    \/ ReceiveWithin(WelcomeFrame, MaxBurst)
    \/ \E code \in {"ok", "error"} : TransportClose(code)
    \/ CancelWorker
    \/ CancelReceiver
    \/ RuntimeExit
    \/ WorkerExit
    \/ Dispatch
    \/ \E k \in ChunkKinds : ChunkArrives(k)
    \/ StreamFails
    \/ \E o \in SendOutcomes : StartDone(o)
    \/ \E o \in SendOutcomes : TextDone(o)
    \/ StreamEnds
    \/ \E o \in SendOutcomes : PrevDone(o)
    \/ \E o \in SendOutcomes : EndDone(o)

BurstSpec == Init /\ [][BurstNext]_vars

\* The details of the n-th frame of a client that chats on the blank page
\* first and in the editor from then on.
PageDetails(n) ==
    IF n = 1 THEN [page |-> "blank", setup |-> FALSE]
    ELSE [page |-> "editor", setup |-> TRUE]

\* The frame {"lang": .., "fileName": .., "images": .., "action": "Chat",
\* "details": d}.
ChatFrame(d) ==
    [ json |-> TRUE, object |-> TRUE, lang |-> "zh", fileName |-> TRUE,
      images |-> TRUE, action |-> "Chat", details |-> d ]

\* The session of that client: every frame carries the language, the file
\* name, the images, the action "Chat" and the details of its page.
PageNext ==
    \/ Receive(ChatFrame(PageDetails(nframes + 1)))
    \/ \E code \in {"ok", "error"} : TransportClose(code)
    \/ CancelWorker
    \/ CancelReceiver
    \/ RuntimeExit
    \/ WorkerExit
    \/ Dispatch
    \/ LlmFails
    \/ \E r \in IntentReplies : IntentReply(r)
    \/ \E r \in EditReplies : EditReply(r)
    \/ \E o \in SendOutcomes : SideDone(o)
    \/ \E k \in ChunkKinds : ChunkArrives(k)
    \/ StreamFails
    \/ \E o \in SendOutcomes : StartDone(o)
    \/ \E o \in SendOutcomes : TextDone(o)
    \/ StreamEnds
    \/ \E o \in SendOutcomes : PrevDone(o)
    \/ \E o \in SendOutcomes : EndDone(o)

PageSpec == Init /\ [][PageNext]_vars

\* The session of BurstSpec with every await of the Worker completing, as in
\* LiveSpec.
BurstLiveSpec ==
    /\ Init /\ [][BurstNext]_vars
    /\ WF_vars(WorkerStep)
    /\ WF_vars(CancelWorker) /\ WF_vars(CancelReceiver) /\ WF_vars(RuntimeExit)

\* -------------------------------------------------------- get_prompts
\* get_prompts, lines 184-207: the source object is copied, the content of
\* its message is rendered in place, and the copy is returned.
GetPrompts(l, id, data) ==
    LET src == Source(l, id)
        obj == Copy(src)
        copied == [store EXCEPT ![obj] = store[src]]
        made == [copied EXCEPT
                    ![obj].content = RenderContent(copied[obj].content, data)]
    IN  /\ store' = made
        /\ ret' = obj
        /\ cur' = [lang |-> l, id |-> id, data |-> data, src |-> src,
                   val |-> made[obj]]
        /\ UNCHANGED runVars

\* create_auto_image_desc_message, line 441: the handler writes into the
\* payload it was given.
AttachImages ==
    /\ ret # "none"
    /\ store' = [store EXCEPT ![ret].images = TRUE]
    /\ UNCHANGED << ret, cur, runVars >>

PromptInit ==
    /\ SessionInit
    /\ \E t \in TemplateTexts : store = Store0(t)
    /\ ret = "none" /\ cur = NoRender

PromptNext ==
    \/ \E l \in Langs, id \in PromptIds, data \in DataMaps :
          GetPrompts(l, id, data)
    \/ AttachImages

\* The template engine alone: any catalog text, any sequence of get_prompts
\* calls and of writes into the payload returned.
PromptSpec == PromptInit /\ [][PromptNext]_vars

\* ---------------------------------------------------- get_conversation
\* ws_receiver, lines 914-915: a frame with 'details' replaces chatDetails
\* by the object the client sent, which holds the page, the setup and the
\* messages, and no 'conversation'.
ReceiveDetails(d, ms) ==
    /\ chatDetails' = d
    /\ messages' = ms
    /\ conversation' = NoConversation
    /\ UNCHANGED << status, action, lang, fileName, images, connVars,
                    registered, wpc, rpc, rt, nframes, spVars, cont, outVars,
                    sawClosed, cause, histVars, tplVars, convRet >>

\* get_conversation, lines 679-710, called for language l: '' without
\* chatDetails, the cached string when chatDetails holds one, else the
\* string made of the messages, which is cached.
GetConversation(l) ==
    /\ IF chatDetails = NoDetails
       THEN /\ convRet' = [lang |-> l, value |-> << >>]
            /\ UNCHANGED conversation
       ELSE IF conversation.set
       THEN /\ convRet' = [lang |-> l, value |-> conversation.str]
            /\ UNCHANGED conversation
       ELSE /\ conversation' = [set |-> TRUE, str |-> JoinLines(l, messages)]
            /\ convRet' = [lang |-> l, value |-> JoinLines(l, messages)]
    /\ UNCHANGED << status, action, lang, fileName, images, chatDetails,
                    connVars, registered, wpc, rpc, rt, nframes, spVars, cont,
                    outVars, sawClosed, cause, histVars, tplVars, messages >>

ConvNext ==
    \/ \E d \in DetailValues, ms \in ListsUpTo(MaxMessages) :
          ReceiveDetails(d, ms)
    \/ \E l \in Langs : GetConversation(l)

\* The conversation string alone: any sequence of details frames and of
\* get_conversation calls (lines 465, 525, 580, 720, 757-848).
ConvSpec == Init /\ [][ConvNext]_vars

\* ---------------------------------------------------------- properties
IsGen(fr) == fr.type \in {"responseStart", "response", "responseEnd"}

\* The frames of the generation among the frames of the handler call.
GenFrames == SelectSeq(out, IsGen)

RECURSIVE Texts(_)
\* The concatenation of the texts of a sequence of frames.
Texts(fs) == IF fs = << >> THEN << >> ELSE Head(fs).text \o Texts(Tail(fs))

\* One responseStart, then response frames, then one responseEnd.
Bracketed(g) ==
    /\ Len(g) >= 2
    /\ g[1].type = "responseStart" /\ g[Len(g)].type = "responseEnd"
    /\ \A i \in 2..(Len(g) - 1) : g[i].type = "response"

\* The text stream_prompts holds and has not handed to the transport.
Held ==
    CASE wpc = "sendStart" -> prev_msg \o text
      [] wpc = "sendText" -> text
      [] wpc \in {"chunk", "sendPrev"} -> prev_msg
      [] OTHER -> << >>

\* C1: an action that arrives while a stream_prompts call is Working or
\* Responding makes that call return False, and the call never sends
\* responseEnd.
C1_InterruptAborts ==
    intStatus # "none" =>
        /\ spRet # "True"
        /\ \A i \in DOMAIN out : out[i].type # "responseEnd"

\* C2: a stream_prompts call that returned True without being interrupted
\* sent one responseStart, then response frames, then one responseEnd.
C2_OneStartOneEnd ==
    (spRet = "True" /\ intStatus = "none") => Bracketed(GenFrames)

\* C3: no text is lost: the texts of the response frames sent, followed by
\* the text the call still holds, are the text deltas of the fragments
\* consumed, in order; when the call has returned True it holds nothing, so
\* the frames sent carry all the text.
C3_NoTextLost ==
    /\ wpc \in StreamPcs => Texts(GenFrames) \o Held = deltas
    /\ spRet = "True" => Texts(GenFrames) = deltas

\* C3 witness: a call returned True after a transient failure, and a later
\* frame carries the text of two fragments.
C3_Witness ==
    /\ spRet = "True"
    /\ \E i \in DOMAIN out : out[i].type = "response" /\ Len(out[i].text) = 2

\* C4: once a send of stream_prompts found the connection closed, the call
\* returns False, nothing more is sent, and the status is not set to Idle.
C4_ClosedAborts ==
    sawClosed =>
        /\ wpc \notin StreamPcs => spRet = "False"
        /\ ~sentAfterClosed
        /\ status # "Idle"

\* The status changes of the state machine table.
TableStep(a, b) ==
    \/ a \in {"Idle", "NewTask", "Interrupt"} /\ b = "NewTask"
    \/ a \in {"Working", "Responding"} /\ b = "Interrupt"
    \/ a = "NewTask" /\ b = "Working"
    \/ a = "Working" /\ b = "Responding"
    \/ a \in {"Working", "Responding"} /\ b = "Idle"
    \/ b = "Closed"

C6_HappyPath ==
    /\ [][status' # status =>
             << status, status' >> \in
                { << "Idle", "NewTask" >>, << "NewTask", "Working" >>,
                  << "Working", "Responding" >>, << "Responding", "Idle" >> }]_vars
    /\ (status = "NewTask" ~> (status = "Idle" /\ Bracketed(GenFrames)))
    /\ [](spRet = "True" => (status = "Idle" /\ Bracketed(GenFrames)))

\* C6 witness: the generation was delivered and the session is Idle again.
C6_Witness ==
    /\ status = "Idle" /\ spRet = "True" /\ Len(dispatched) = 1
    /\ Bracketed(GenFrames) /\ Len(GenFrames) >= 3

\* C7: no response frame whose send began after the Receiver set Interrupt
\* on a Responding generation is sent.
C7_NoResponseAfterInterrupt == ~respAfterInt

\* C8: no action stored by an inbound frame is dispatched twice.
C8_NoDoubleDispatch ==
    \A i, j \in DOMAIN dispatched :
        i # j => dispatched[i].id # dispatched[j].id

\* C8 witness: two actions were dispatched.
C8_Witness == Len(dispatched) = 2

\* C9: the Worker dispatches only the action of the last frame received
\* before it reads the slot.
C9_LatestOnly ==
    \A i \in DOMAIN dispatched : dispatched[i].id = dispatched[i].latest

\* C9 witness: two actions arrived before the Worker read the slot, and it
\* dispatched the second.
C9_Witness == Len(dispatched) = 1 /\ dispatched[1].id = 2

\* C10: a generation failure does not end the loops of an open session.
C10_FailureKeepsSession ==
    cause = "generation" => (closed \/ (wpc \notin EndPcs /\ rpc = "run"))

\* C11: a classification result the handler cannot use (an intent that is no
\* number, an intent number no branch handles, an adjustment reply that is
\* not JSON) never raises out of the Worker loop.
C11_FallsBack == cause # "intent"

\* C12: once the Receiver or the Worker has terminated, by return or by an
\* exception, the other one terminates as well.
C12_TerminateTogether ==
    (wpc \in EndPcs \/ rpc \in EndPcs) ~> (wpc \in EndPcs /\ rpc \in EndPcs)

\* C12 witness: the connection closed normally while the Worker was inside
\* stream_prompts; the Receiver returned, the call returned False and the
\* Worker left its loop.
C12_Witness ==
    /\ rpc = "done" /\ wpc = "done"
    /\ Len(dispatched) >= 1 /\ spRet = "False" /\ sawClosed

\* C13: once ws_runtime has left the TaskGroup, both loops having exited by
\* return or by an exception, the status is Closed and the session is no
\* longer registered.
C13_Finalised == rt # "running" => (status = "Closed" /\ ~registered)

\* C14: ensure_ws_send_message does not raise on a send error of an open
\* connection: an exception leaves it only when the connection is closed.
C14_RetriesTransient == cause = "send" => closed

\* C15: a frame that is not JSON changes neither status, action, lang,
\* fileName, images nor chatDetails, and the Receiver stays in its loop for
\* the next frame.
C15_BadFrameIgnored ==
    [][Receive(BadFrame) =>
          /\ UNCHANGED << status, action, lang, fileName, images,
                          chatDetails >>
          /\ rpc' = "run"]_vars

\* C15 witness: of two frames received one was not JSON and left no trace,
\* the other stored its action.
C15_Witness ==
    /\ nframes = 2 /\ lastStored = 1 /\ rpc = "run"
    /\ lang = "en" /\ ~fileName /\ ~images /\ chatDetails = NoDetails

\* C16: no get_prompts call and no write into a returned payload changes a
\* catalog object or an error template, and a render of the same entry with
\* the same variables as the render before it returns an equal payload.
C16_CatalogUntouched ==
    [][/\ \A a \in CatalogAddrs : store'[a] = store[a]
       /\ (/\ cur.lang # "none" /\ cur'.lang = cur.lang
           /\ cur'.id = cur.id /\ cur'.data = cur.data)
             => cur'.val = cur.val]_vars

\* C16 witness: a handler attached images to a payload rendered from the
\* catalog entry with a variable.
C16_Witness ==
    /\ ret # "none" /\ store[ret].images
    /\ cur.src = "cat" /\ cur.data # NoData
    /\ store["cat"].content = << "{", "a", "}" >>

RECURSIVE Flatten(_)
\* The concatenation of a sequence of texts.
Flatten(ss) == IF ss = << >> THEN << >> ELSE Head(ss) \o Flatten(Tail(ss))

\* The tokens of s: << i, j >> where s[i..j] is {identifier}, no opening
\* brace stands before it and no closing brace after it.
Tokens(s) ==
    { p \in (1..Len(s)) \X (1..Len(s)) :
        /\ p[2] > p[1] + 1 /\ s[p[1]] = "{" /\ s[p[2]] = "}"
        /\ \A k \in (p[1] + 1)..(p[2] - 1) : IsIdent(s[k])
        /\ (p[1] = 1 \/ s[p[1] - 1] # "{")
        /\ (p[2] = Len(s) \/ s[p[2] + 1] # "}") }

\* The value of the variable name, the empty text when it is missing.
ValueOf(name, data) == IF name \in data.keys THEN data.val ELSE << >>

\* s with every token replaced by the value of its variable.
Substituted(s, data) ==
    Flatten([ i \in 1..Len(s) |->
        IF \E p \in Tokens(s) : p[1] = i
        THEN LET p == CHOOSE q \in Tokens(s) : q[1] = i
             IN  ValueOf(SubSeq(s, i + 1, p[2] - 1), data)
        ELSE IF \E p \in Tokens(s) : p[1] < i /\ i <= p[2]
        THEN << >>
        ELSE << s[i] >> ])

\* The first index of the run of equal characters that s[i] is in.
RunStart(s, i) ==
    CHOOSE k \in 1..i :
        /\ \A m \in k..i : s[m] = s[i]
        /\ (k = 1 \/ s[k - 1] # s[i])

\* s with every doubled brace turned into one brace.
Halved(s) ==
    Flatten([ i \in 1..Len(s) |->
        IF s[i] \in {"{", "}"} /\ (i - RunStart(s, i)) % 2 = 1
        THEN << >> ELSE << s[i] >> ])

\* C17: the content get_prompts returns for the catalog entry is its text
\* with the tokens replaced in one pass by the values of their variables,
\* the empty text for a missing one, and the doubled braces halved after
\* that.
C17_SubstituteThenUnescape ==
    cur.src = "cat" =>
        cur.val.content = Halved(Substituted(store["cat"].content, cur.data))

\* C17 witness: "{{a}} {a} {{a}}" rendered with a = "a" gave "{a} a {a}".
C17_Witness ==
    /\ cur.src = "cat" /\ store["cat"].content = ExampleText
    /\ cur.data = [keys |-> { << "a" >> }, val |-> << "a" >>]
    /\ cur.val.content =
          << "{", "a", "}", " ", "a", " ", "{", "a", "}" >>

\* The template the fallback chain names for language l and prompt id.
ChainTemplate(l, id) ==
    IF l = "en" /\ id = "p" THEN "cat"
    ELSE IF l = "en" THEN "errEn"
    ELSE IF l = "zh" THEN "errZh"
    ELSE "errEn"

\* C18: get_prompts returns a payload rendered from the catalog entry when
\* there is one, else from the error template of the language, else from
\* the error template of 'en'.
C18_FallbackChain ==
    cur.lang # "none" =>
        /\ ret # "none"
        /\ cur.src = ChainTemplate(cur.lang, cur.id)
        /\ cur.val.content =
              RenderContent(store[ChainTemplate(cur.lang, cur.id)].content,
                            cur.data)

\* C18 witness: a render for a language that has neither the entry nor an
\* error template returned the error template of 'en'.
C18_Witness ==
    /\ cur.lang = "fr" /\ cur.src = "errEn"
    /\ cur.val.content = ErrEnText

\* C19: once the Receiver has set Interrupt while a handler was suspended,
\* the status is not overwritten with Working, Responding or Idle before the
\* Worker dispatches the superseding action.
C19_InterruptKept ==
    [][(status = "Interrupt" /\ status' \in {"Working", "Responding", "Idle"})
          => dispatched' # dispatched]_vars

\* C20: a handler is dispatched only when no handler, and so no
\* stream_prompts call, of the session is in flight: the frames of two
\* generations are never interleaved.
C20_OneEngine ==
    [][dispatched' # dispatched =>
          wpc \notin StreamPcs \cup LlmPcs \cup {"side"}]_vars

\* C20 witness: a second generation is sending its frames after the first
\* one was interrupted.
C20_Witness ==
    /\ Len(dispatched) = 2 /\ wpc \in StreamPcs
    /\ \E i \in DOMAIN out : out[i].type = "response"

\* C21: no field of the session state is written by both loops.  ws_receiver
\* writes every one of status, action, lang, fileName, images and
\* chatDetails (lines 893-915), so the claim says that no step of the Worker
\* (a step that is neither the Receiver's nor ws_runtime's) changes one.
C21_SingleWriter ==
    [][(nframes' = nframes /\ rt' = rt) =>
          UNCHANGED << status, action, lang, fileName, images,
                       chatDetails >>]_vars

\* C22: among the frames of one generation, a response frame comes after a
\* responseStart frame, and nothing comes after a responseEnd frame.
C22_FrameOrder ==
    \A i \in DOMAIN GenFrames :
        /\ GenFrames[i].type = "response" =>
              \E j \in 1..(i - 1) : GenFrames[j].type = "responseStart"
        /\ GenFrames[i].type = "responseEnd" => i = Len(GenFrames)

\* C23: the carry-over of stream_prompts never holds more than the text of
\* one fragment (a fragment carries one unit of text here), and after the
\* send of a response frame the call waits for the next fragment: it does
\* not go to another send.
C23_SingleSlot ==
    [][/\ Len(prev_msg') <= 1
       /\ (wpc = "sendText" /\ wpc' # wpc /\ wpc' \in StreamPcs) =>
              wpc' = "chunk"]_vars

\* C23, amended: while stream_prompts waits for a fragment, the carry-over
\* is the text of all the fragments consumed since the last delivered
\* response frame, in order (of several fragments after consecutive transient
\* failures); and after the send of a response frame the call waits for the
\* next fragment: it does not go to another send.
C23_CarryAll ==
    [][/\ wpc' = "chunk" => Texts(GenFrames)' \o prev_msg' = deltas'
       /\ (wpc = "sendText" /\ wpc' # wpc /\ wpc' \in StreamPcs) =>
              wpc' = "chunk"]_vars

\* C23 witness: two consecutive transient failures, and the call waits for
\* the next fragment holding the text of both fragments.
C23_Witness == wpc = "chunk" /\ Len(prev_msg) = 2 /\ ~closed

\* C24: while the status is Responding, a frame of the current generation
\* has been delivered to the client.
C24_RespondingDelivered == status = "Responding" => GenFrames # << >>

\* C25: while the status is Idle, the action slot is empty and the Worker
\* is in no handler and in no stream_prompts call.
C25_IdleIsQuiet ==
    status = "Idle" =>
        /\ action = NoAction
        /\ wpc \notin StreamPcs \cup LlmPcs \cup {"side"}

\* C26: every get_conversation call for a language returns the messages
\* chatDetails holds at the call, written with the role names of that
\* language.
C26_NeverStale ==
    [][\A l \in Langs :
          GetConversation(l) => convRet'.value = JoinLines(l, messages)]_vars

\* C27: an action the Receiver stored is in the end dispatched by the Worker
\* or overwritten by a later action, unless the connection closes or the
\* Worker ends (a handler call that raises instead of returning, or the
\* cancellation that follows a failure of the Receiver).
C27_DispatchLive ==
    \A i \in 1..MaxBurst :
        (lastStored = i /\ Truthy(action)) ~>
            \/ \E j \in DOMAIN dispatched : dispatched[j].id = i
            \/ lastStored > i
            \/ closed \/ wpc \in EndPcs

\* C27 witness: the call of the first action was interrupted by the second
\* and returned False; the third action, stored while the status was
\* Interrupt, is in the slot when the Worker polls.
C27_Witness ==
    /\ wpc = "poll" /\ spRet = "False" /\ intStatus # "none" /\ ~closed
    /\ action.id = 3 /\ status = "NewTask" /\ Len(dispatched) = 1

\* C28: the Worker dispatches the action of a frame seeing what that frame
\* carried: the details of the frame's page, its file name and its images,
\* and for the first frame its language, never what the session held before
\* the frame.
C28_FrameAtomic ==
    [][dispatched' # dispatched =>
          /\ chatDetails = PageDetails(action.id)
          /\ fileName /\ images
          /\ action.id = 1 => lang = "zh"]_vars

\* C28 witness: the first frame's action was dispatched from the blank page,
\* and now the second frame's action is dispatched to the editor handler.
C28_Witness ==
    /\ Len(dispatched) = 2 /\ dispatched[2].id = 2
    /\ wpc = "editor_llm"

====
